---- MODULE Spec2Model ----
(***************************************************************************)
(* argus-docs: the documentation sync engine (scripts/sync-docs.js) and    *)
(* the documentation validator (scripts/validate-docs.js and its stricter  *)
(* revision with validation roots).                                        *)
(*                                                                         *)
(* Strings are TLA+ strings; a file's content on disk is a string of bytes *)
(* in which the character BadByte stands for one byte that is not valid    *)
(* UTF-8 (e.g. 0xFF) and Replacement for the encoding of U+FFFD.  Output   *)
(* lines are rendered in ASCII: Cross, Check, Chart and Arrow stand for    *)
(* the four non-ASCII characters of the scripts' messages.                 *)
(***************************************************************************)
EXTENDS Integers, Sequences, FiniteSets, TLC

\* ------------------------------------------------------------------------
\* Bounds
\* ------------------------------------------------------------------------
MaxEntries == 2

\* the script is run at most this many times in a row
MaxRuns == 2

\* ------------------------------------------------------------------------
\* String helpers (JavaScript String / RegExp primitives)
\* ------------------------------------------------------------------------
UpperChars == <<"A", "B", "C", "D", "E", "F", "G", "H", "I", "J", "K", "L", "M",
               "N", "O", "P", "Q", "R", "S", "T", "U", "V", "W", "X", "Y", "Z">>

LowerChars == <<"a", "b", "c", "d", "e", "f", "g", "h", "i", "j", "k", "l", "m",
               "n", "o", "p", "q", "r", "s", "t", "u", "v", "w", "x", "y", "z">>

FoldMap == [ c \in { UpperChars[k] : k \in 1..26 } |->
               LowerChars[CHOOSE k \in 1..26 : UpperChars[k] = c] ]

\* canonical case of one character, as the /i flag compares characters
FoldChar(c) == IF c \in DOMAIN FoldMap THEN FoldMap[c] ELSE c

CharAt(s, at) == SubSeq(s, at, at)

\* p occurs in s at offset at (1-based)
MatchAt(s, p, at) == at >= 1 /\ at + Len(p) - 1 <= Len(s) /\ SubSeq(s, at, at + Len(p) - 1) = p

\* the same, comparing characters without regard to letter case
MatchAtI(s, p, at) ==
  /\ at >= 1
  /\ at + Len(p) - 1 <= Len(s)
  /\ \A j \in 1..Len(p) : FoldChar(CharAt(s, at + j - 1)) = FoldChar(CharAt(p, j))

startsWith(s, p) == MatchAt(s, p, 1)

endsWith(s, p) == Len(p) <= Len(s) /\ MatchAt(s, p, Len(s) - Len(p) + 1)

\* s.includes(p)
includes(s, p) == \E at \in 1..(Len(s) - Len(p) + 1) : MatchAt(s, p, at)

\* first offset >= from at which p occurs in s, 0 when there is none
IndexFrom(s, p, from) ==
  IF \E at \in from..(Len(s) + 1) : MatchAt(s, p, at)
    THEN CHOOSE at \in from..(Len(s) + 1) :
           MatchAt(s, p, at) /\ \A j \in from..(at - 1) : ~MatchAt(s, p, j)
    ELSE 0

\* /WORD/i.test(s): the word occurs anywhere in s, in any letter case
TestWordI(word, s) == \E at \in 1..(Len(s) - Len(word) + 1) : MatchAtI(s, word, at)

\* the last component of a path: path.split('/').pop()
RECURSIVE LastSlash(_, _)
LastSlash(s, at) == IF at = 0 THEN 0 ELSE IF SubSeq(s, at, at) = "/" THEN at ELSE LastSlash(s, at - 1)

Basename(path) == SubSeq(path, LastSlash(path, Len(path)) + 1, Len(path))

\* ------------------------------------------------------------------------
\* File contents: bytes on disk, text in the program
\* ------------------------------------------------------------------------
BadByte == "^"

Replacement == "?"

RECURSIVE DecodeUtf8(_)
\* readFileSync(path, 'utf8'): every invalid byte decodes to U+FFFD
DecodeUtf8(bytes) ==
  IF Len(bytes) = 0 THEN ""
  ELSE (IF SubSeq(bytes, 1, 1) = BadByte THEN Replacement ELSE SubSeq(bytes, 1, 1))
         \o DecodeUtf8(SubSeq(bytes, 2, Len(bytes)))

\* writeFileSync(path, text): the text encoded as UTF-8
EncodeUtf8(text) == text

NoFile == "<ENOENT>"

\* ASCII stand-ins for the cross mark, the check mark, the bar chart and
\* the arrow of the console messages
Cross == "[x]"

Check == "[v]"

Chart == "[#]"

Arrow == "->"

\* the openings of the three kinds of line of the sync engine
BlockedPrefix == Cross \o " Blocked: "

SyncedPrefix == Check \o " Synced: "

SummaryPrefix == "\n" \o Chart \o " Summary: "

\* ------------------------------------------------------------------------
\* Sync engine: scripts/sync-docs.js
\* ------------------------------------------------------------------------
APPROVED_SOURCES == <<
  [source |-> "/mnt/development/README.md", dest |-> "guide/index.md"],
  [source |-> "/mnt/development/AI_MASTER_GUIDE.md", dest |-> "guide/ai-guide.md"],
  [source |-> "/mnt/development/CODING_GUIDELINES.md", dest |-> "guide/coding-guidelines.md"],
  [source |-> "/mnt/development/TYPE_SAFETY_RULES.md", dest |-> "guide/type-safety.md"],
  [source |-> "/mnt/development/I18N_AND_ACCESSIBILITY_REQUIREMENTS.md", dest |-> "guide/accessibility.md"],
  [source |-> "/mnt/development/DATABASE_CONNECTION_GUIDE.md", dest |-> "guide/database.md"],
  [source |-> "/mnt/development/CLOUDFLARE_MANAGEMENT_GUIDE.md", dest |-> "guide/deployment.md"] >>

\* entries a maintainer could add to the hand-maintained table; like the
\* shipped ones, every entry has a source and a destination of its own
ExtraEntries == <<
  [source |-> "/mnt/development/SESSION_NOTES.md", dest |-> "guide/session-notes.md"],
  [source |-> "/mnt/session/intro.md", dest |-> "guide/intro.md"],
  [source |-> "/mnt/development/VERIFICATION.md", dest |-> "guide/verification.md"],
  [source |-> "/mnt/development/my-audit.md", dest |-> "guide/my-audit.md"] >>

\* the pool the tables of the model are drawn from: two shipped entries
\* (all seven shipped sources are clean names under /mnt/development) and
\* the extra ones
EntryPool == <<APPROVED_SOURCES[1], APPROVED_SOURCES[5]>> \o ExtraEntries

BLOCKED_PATTERNS == <<"SUMMARY", "COMPLETE", "FIXES", "SESSION", "PROMPT", "STATUS", "AUDIT">>

isJunkDoc(filename) ==
  \E k \in 1..Len(BLOCKED_PATTERNS) : TestWordI(BLOCKED_PATTERNS[k], filename)

Cwd == "/srv/argus-docs"

\* path.join(dir, name) for a name without '.' or '..': the result is
\* normalised, so join('.', 'guide') is 'guide'
join(dir, name) == IF dir = "." THEN name ELSE dir \o "/" \o name

DestPath(e) == join(Cwd, e.dest)

\* the tables a run can be started with: entries of the pool in pool order
RECURSIVE PickEntries(_)
PickEntries(idx) ==
  IF Len(idx) = 0 THEN <<>> ELSE <<EntryPool[Head(idx)]>> \o PickEntries(Tail(idx))

Increasing(idx) == \A a, b \in 1..Len(idx) : a < b => idx[a] < idx[b]

Mappings ==
  { PickEntries(idx) :
      idx \in { s \in UNION { [1..n -> 1..Len(EntryPool)] : n \in 1..MaxEntries } : Increasing(s) } }

GoodBytes == "# Doc"

InvalidBytes == "caf^"

OldDestBytes == "stale text, longer than any source"

\* what a source can be when the run starts
SourceStates == {"missing", "unreadable", "text", "invalid"}

\* what a destination can be: an old copy that can be overwritten, or a
\* path that cannot be written (its directory is missing or read-only)
DestStates == {"old", "unwritable"}

SourceContent(st) ==
  CASE st = "missing" -> NoFile
    [] st = "unreadable" -> GoodBytes
    [] st = "text" -> GoodBytes
    [] st = "invalid" -> InvalidBytes

\* the sources of the pool that isJunkDoc blocks
BlockedSources ==
  { EntryPool[n].source : n \in { m \in 1..Len(EntryPool) : isJunkDoc(EntryPool[m].source) } }

\* line 39, if (isJunkDoc(source)): the answer of isJunkDoc looked up in the
\* table above rather than computed anew at every step
IsJunkSource(source) == source \in BlockedSources

VARIABLES
  mapping,      \* Object.entries(APPROVED_SOURCES) of this run
  files,        \* the filesystem: absolute path -> bytes, or NoFile
  unreadable,   \* paths on which readFileSync throws (EACCES, EISDIR)
  unwritable,   \* paths on which writeFileSync throws (ENOENT dir, EACCES, ENOSPC)
  i,            \* index of the next entry of the for loop
  synced,       \* let synced
  blocked,      \* let blocked
  out,          \* lines printed by console.log, in order
  pc,           \* "loop", "done" (returned) or "crashed" (uncaught throw)
  exitCode,     \* process exit status, -1 while running
  reads,        \* paths handed to readFileSync so far
  outcome,      \* per processed entry: "blocked", "synced" or "missing"
  files0,       \* the filesystem when the run started
  variant,      \* which validator runs: "basic" or "strict" ("none": sync run)
  tree,         \* the files under the working directory, in readdir order
  vfound,       \* findMarkdownFiles: paths of the files it found to end in '.md'
  vfiles,       \* validate(): the files list, [relPath, bytes, readable]
  vi,           \* validate(): index of the next file of the for loop
  verrors,      \* validate(): the errors array returned for each file so far
  totalErrors,  \* validate(): let totalErrors
  vout,         \* lines printed by the validator, in order
  vpc,          \* "find", "loop", "done" (returned or process.exit) or "crashed"
  vexit,        \* exit status of the validator, -1 while running
  run,          \* number of the run in progress of the tool under study
  prev          \* what the run before left: [out, exit, fs]

syncVars == <<mapping, files, unreadable, unwritable, i, synced, blocked, out, pc,
              exitCode, reads, outcome, files0>>

valVars == <<variant, tree, vfound, vfiles, vi, verrors, totalErrors, vout, vpc, vexit>>

runVars == <<run, prev>>

vars == <<syncVars, valVars, runVars>>

\* no run has ended yet
NoRun == [out |-> <<>>, exit |-> -1, fs |-> <<>>]

\* the first invocation of the script
FirstRun == run = 1 /\ prev = NoRun

\* a file of the working directory that no entry of the mapping names
OtherPath == Cwd \o "/guide/unmapped.md"

OtherBytes == "written by hand"

SyncPaths(m) == { m[k].source : k \in 1..Len(m) } \cup { DestPath(m[k]) : k \in 1..Len(m) }

existsSync(path) == path \in DOMAIN files /\ files[path] # NoFile

\* a writer that opens the file without truncating it: the tail of a longer
\* old content survives
writeFileSync_NoTruncate(fs, path, text) ==
  LET old == IF fs[path] = NoFile THEN "" ELSE fs[path]
      new == EncodeUtf8(text)
  IN  [fs EXCEPT ![path] = new \o SubSeq(old, Len(new) + 1, Len(old))]

\* fs.writeFileSync(path, text): the file is created or truncated, then the
\* encoded text is written
writeFileSync(fs, path, text) == [fs EXCEPT ![path] = EncodeUtf8(text)]

\* fs.writeFileSync(path, text) that throws after the file was opened: the
\* file is already truncated and holds the n bytes written before the error
\* (ENOSPC, EIO, EDQUOT)
writeFileSync_Interrupted(fs, path, text, n) ==
  [fs EXCEPT ![path] = SubSeq(EncodeUtf8(text), 1, n)]

SyncInit ==
  /\ mapping \in Mappings
  /\ \E src \in [1..Len(mapping) -> SourceStates], dst \in [1..Len(mapping) -> DestStates] :
       /\ files = [ p \in SyncPaths(mapping) \cup {OtherPath} |->
                     IF \E k \in 1..Len(mapping) : mapping[k].source = p
                       THEN SourceContent(src[CHOOSE k \in 1..Len(mapping) : mapping[k].source = p])
                       ELSE IF p = OtherPath THEN OtherBytes ELSE OldDestBytes ]
       /\ unreadable = { mapping[k].source : k \in { n \in 1..Len(mapping) : src[n] = "unreadable" } }
       /\ unwritable = { DestPath(mapping[k]) : k \in { n \in 1..Len(mapping) : dst[n] = "unwritable" } }
  /\ i = 1
  /\ synced = 0
  /\ blocked = 0
  /\ out = <<>>
  /\ pc = "loop"
  /\ exitCode = -1
  /\ reads = {}
  /\ outcome = <<>>
  /\ files0 = files

\* the validator does not run during a sync run
ValIdle ==
  /\ variant = "none"
  /\ tree = <<>>
  /\ vfound = <<>>
  /\ vfiles = <<>>
  /\ vi = 1
  /\ verrors = <<>>
  /\ totalErrors = 0
  /\ vout = <<>>
  /\ vpc = "idle"
  /\ vexit = -1

InLoop == pc = "loop" /\ i <= Len(mapping)

\* the blocked branch bumping the wrong counter
SyncBlocked_CountsSynced ==
  /\ InLoop
  /\ IsJunkSource(mapping[i].source)
  /\ out' = Append(out, BlockedPrefix \o mapping[i].source)
  /\ synced' = synced + 1
  /\ outcome' = Append(outcome, "blocked")
  /\ i' = i + 1
  /\ UNCHANGED valVars
  /\ UNCHANGED runVars
  /\ UNCHANGED <<mapping, files, unreadable, unwritable, blocked, pc, exitCode, reads, files0>>

\* a blocked entry whose stale destination is removed from the docs tree
SyncBlocked_RemovesDest ==
  /\ InLoop
  /\ IsJunkSource(mapping[i].source)
  /\ out' = Append(out, BlockedPrefix \o mapping[i].source)
  /\ blocked' = blocked + 1
  /\ outcome' = Append(outcome, "blocked")
  /\ i' = i + 1
  /\ files' = [files EXCEPT ![DestPath(mapping[i])] = NoFile]
  /\ UNCHANGED valVars
  /\ UNCHANGED runVars
  /\ UNCHANGED <<mapping, unreadable, unwritable, synced, pc, exitCode, reads, files0>>

\* lines 39-43: the source matches a blocked pattern
SyncBlocked ==
  /\ InLoop
  /\ IsJunkSource(mapping[i].source)
  /\ out' = Append(out, BlockedPrefix \o mapping[i].source)
  /\ blocked' = blocked + 1
  /\ outcome' = Append(outcome, "blocked")
  /\ i' = i + 1
  /\ UNCHANGED valVars
  /\ UNCHANGED runVars
  /\ UNCHANGED <<mapping, files, unreadable, unwritable, synced, pc, exitCode, reads, files0>>

\* a copy that leaves alone a destination someone changed since the last sync
SyncCopy_KeepsEdits ==
  /\ InLoop
  /\ ~IsJunkSource(mapping[i].source)
  /\ existsSync(mapping[i].source)
  /\ mapping[i].source \notin unreadable
  /\ DestPath(mapping[i]) \notin unwritable
  /\ LET content == DecodeUtf8(files[mapping[i].source])
         destPath == DestPath(mapping[i])
     IN  files' = IF files[destPath] = EncodeUtf8(content) \/ files[destPath] = OldDestBytes
                    THEN writeFileSync(files, destPath, content)
                    ELSE files
  /\ reads' = reads \cup {mapping[i].source}
  /\ out' = Append(out, SyncedPrefix \o mapping[i].source \o " " \o Arrow \o " " \o mapping[i].dest)
  /\ synced' = synced + 1
  /\ outcome' = Append(outcome, "synced")
  /\ i' = i + 1
  /\ UNCHANGED valVars
  /\ UNCHANGED runVars
  /\ UNCHANGED <<mapping, unreadable, unwritable, blocked, pc, exitCode, files0>>

\* lines 45-51: the source exists, is read and written to the destination
SyncCopy ==
  /\ InLoop
  /\ ~IsJunkSource(mapping[i].source)
  /\ existsSync(mapping[i].source)
  /\ mapping[i].source \notin unreadable
  /\ DestPath(mapping[i]) \notin unwritable
  /\ LET content == DecodeUtf8(files[mapping[i].source])
         destPath == DestPath(mapping[i])
     IN  files' = writeFileSync(files, destPath, content)
  /\ reads' = reads \cup {mapping[i].source}
  /\ out' = Append(out, SyncedPrefix \o mapping[i].source \o " " \o Arrow \o " " \o mapping[i].dest)
  /\ synced' = synced + 1
  /\ outcome' = Append(outcome, "synced")
  /\ i' = i + 1
  /\ UNCHANGED valVars
  /\ UNCHANGED runVars
  /\ UNCHANGED <<mapping, unreadable, unwritable, blocked, pc, exitCode, files0>>

\* a missing source counted as blocked
SyncSkipMissing_CountsBlocked ==
  /\ InLoop
  /\ ~IsJunkSource(mapping[i].source)
  /\ ~existsSync(mapping[i].source)
  /\ blocked' = blocked + 1
  /\ outcome' = Append(outcome, "missing")
  /\ i' = i + 1
  /\ UNCHANGED valVars
  /\ UNCHANGED runVars
  /\ UNCHANGED <<mapping, files, unreadable, unwritable, synced, out, pc,
                 exitCode, reads, files0>>

\* no existsSync guard: readFileSync throws ENOENT on a missing source
SyncSkipMissing_Throws ==
  /\ InLoop
  /\ ~IsJunkSource(mapping[i].source)
  /\ ~existsSync(mapping[i].source)
  /\ reads' = reads \cup {mapping[i].source}
  /\ pc' = "crashed"
  /\ exitCode' = 1
  /\ UNCHANGED valVars
  /\ UNCHANGED runVars
  /\ UNCHANGED <<mapping, files, unreadable, unwritable, i, synced, blocked, out,
                 outcome, files0>>

\* line 45, condition false: nothing is done for a source that does not exist
SyncSkipMissing ==
  /\ InLoop
  /\ ~IsJunkSource(mapping[i].source)
  /\ ~existsSync(mapping[i].source)
  /\ outcome' = Append(outcome, "missing")
  /\ i' = i + 1
  /\ UNCHANGED valVars
  /\ UNCHANGED runVars
  /\ UNCHANGED <<mapping, files, unreadable, unwritable, synced, blocked, out, pc,
                 exitCode, reads, files0>>

\* line 46: readFileSync throws; nothing catches it, node exits with status 1
SyncReadThrows ==
  /\ InLoop
  /\ ~IsJunkSource(mapping[i].source)
  /\ existsSync(mapping[i].source)
  /\ mapping[i].source \in unreadable
  /\ reads' = reads \cup {mapping[i].source}
  /\ pc' = "crashed"
  /\ exitCode' = 1
  /\ UNCHANGED valVars
  /\ UNCHANGED runVars
  /\ UNCHANGED <<mapping, files, unreadable, unwritable, i, synced, blocked, out,
                 outcome, files0>>

\* a failed write that restores every destination the run had written
SyncWriteThrows_RollsBack ==
  /\ InLoop
  /\ ~IsJunkSource(mapping[i].source)
  /\ existsSync(mapping[i].source)
  /\ mapping[i].source \notin unreadable
  /\ DestPath(mapping[i]) \in unwritable
  /\ files' = files0
  /\ reads' = reads \cup {mapping[i].source}
  /\ pc' = "crashed"
  /\ exitCode' = 1
  /\ UNCHANGED valVars
  /\ UNCHANGED runVars
  /\ UNCHANGED <<mapping, unreadable, unwritable, i, synced, blocked, out,
                 outcome, files0>>

\* line 48: writeFileSync throws; nothing catches it, node exits with status 1
SyncWriteThrows ==
  /\ InLoop
  /\ ~IsJunkSource(mapping[i].source)
  /\ existsSync(mapping[i].source)
  /\ mapping[i].source \notin unreadable
  /\ DestPath(mapping[i]) \in unwritable
  /\ LET content == DecodeUtf8(files[mapping[i].source])
         destPath == DestPath(mapping[i])
     IN  \/ files' = files
         \/ \E n \in 0..(Len(EncodeUtf8(content)) - 1) :
              files' = writeFileSync_Interrupted(files, destPath, content, n)
  /\ reads' = reads \cup {mapping[i].source}
  /\ pc' = "crashed"
  /\ exitCode' = 1
  /\ UNCHANGED valVars
  /\ UNCHANGED runVars
  /\ UNCHANGED <<mapping, unreadable, unwritable, i, synced, blocked, out,
                 outcome, files0>>

\* the summary line with its two numbers swapped
SyncSummary_Swapped ==
  /\ pc = "loop"
  /\ i > Len(mapping)
  /\ out' = Append(out, SummaryPrefix \o ToString(blocked) \o " synced, "
                          \o ToString(synced) \o " blocked")
  /\ pc' = "done"
  /\ exitCode' = 0
  /\ UNCHANGED valVars
  /\ UNCHANGED runVars
  /\ UNCHANGED <<mapping, files, unreadable, unwritable, i, synced, blocked, reads,
                 outcome, files0>>

\* line 54 and the return to the top level: the summary line, exit status 0
SyncSummary ==
  /\ pc = "loop"
  /\ i > Len(mapping)
  /\ out' = Append(out, SummaryPrefix \o ToString(synced) \o " synced, "
                          \o ToString(blocked) \o " blocked")
  /\ pc' = "done"
  /\ exitCode' = 0
  /\ UNCHANGED valVars
  /\ UNCHANGED runVars
  /\ UNCHANGED <<mapping, files, unreadable, unwritable, i, synced, blocked, reads,
                 outcome, files0>>

syncDocs ==
  \/ SyncBlocked
  \/ SyncCopy
  \/ SyncSkipMissing
  \/ SyncReadThrows
  \/ SyncWriteThrows
  \/ SyncSummary

Init == SyncInit /\ ValIdle /\ FirstRun

Next == syncDocs

Spec == Init /\ [][Next]_vars

\* a destination as someone left it after editing it by hand
HandEdited == "edited by hand"

\* node scripts/sync-docs.js is started once more after a run that returned:
\* line 57 calls syncDocs() in a new process, whose counters start at 0 on the
\* filesystem as it is
SyncAgain ==
  /\ pc = "done"
  /\ run < MaxRuns
  /\ run' = run + 1
  /\ prev' = [out |-> out, exit |-> exitCode, fs |-> files]
  /\ i' = 1
  /\ synced' = 0
  /\ blocked' = 0
  /\ out' = <<>>
  /\ pc' = "loop"
  /\ exitCode' = -1
  /\ reads' = {}
  /\ outcome' = <<>>
  /\ files0' = files
  /\ UNCHANGED <<mapping, files, unreadable, unwritable>>
  /\ UNCHANGED valVars

\* between two runs someone edits one destination by hand
HandEdit ==
  /\ run > 1
  /\ pc = "loop"
  /\ i = 1
  /\ files = prev.fs
  /\ \E k \in 1..Len(mapping) :
       files' = [files EXCEPT ![DestPath(mapping[k])] = HandEdited]
  /\ files0' = files'
  /\ UNCHANGED <<mapping, unreadable, unwritable, i, synced, blocked, out, pc,
                 exitCode, reads, outcome>>
  /\ UNCHANGED valVars
  /\ UNCHANGED runVars

NextTwice == syncDocs \/ SyncAgain \/ HandEdit

\* the sync engine run up to MaxRuns times in a row
SpecTwice == Init /\ [][NextTwice]_vars

\* ------------------------------------------------------------------------
\* Properties of the sync engine
\* ------------------------------------------------------------------------
Entries == 1..Len(mapping)

Src(k) == mapping[k].source

Dst(k) == DestPath(mapping[k])

\* the entry's source is blocked
Junk(k) == Src(k) \in BlockedSources

\* the entry's source is not blocked and its file existed when the run began
Copyable(k) == ~Junk(k) /\ files0[Src(k)] # NoFile

\* the entry's source is not blocked and its file did not exist
Missing(k) == ~Junk(k) /\ files0[Src(k)] = NoFile

ValidUtf8(bytes) == ~includes(bytes, BadByte)

SyncedLine(k) == SyncedPrefix \o Src(k) \o " " \o Arrow \o " " \o mapping[k].dest

BlockedLine(k) == BlockedPrefix \o Src(k)

SummaryLine(s, b) == SummaryPrefix \o ToString(s) \o " synced, " \o ToString(b) \o " blocked"

\* C1 as stated: after syncDocs finishes, the destination of every entry
\* whose source is not blocked and exists holds exactly the bytes of the
\* source, and the entry is counted once as synced.
C1_DestEqualsSourceBytes ==
  pc = "done" =>
    /\ \A k \in Entries : Copyable(k) =>
         /\ files[Dst(k)] = files0[Src(k)]
         /\ outcome[k] = "synced"
    /\ synced = Cardinality({ k \in Entries : Copyable(k) })

\* C1 amended: after syncDocs finishes, the destination of every entry whose
\* source is not blocked and exists holds the UTF-8 encoding of the source
\* decoded as UTF-8 and nothing else (the same bytes when the source is
\* valid UTF-8, U+FFFD for every invalid byte otherwise), the source is
\* untouched, and the entry is counted once as synced.
C1_DestIsSourceText ==
  pc = "done" =>
    /\ \A k \in Entries : Copyable(k) =>
         /\ files[Dst(k)] = EncodeUtf8(DecodeUtf8(files0[Src(k)]))
         /\ ValidUtf8(files0[Src(k)]) => files[Dst(k)] = files0[Src(k)]
         /\ files[Src(k)] = files0[Src(k)]
         /\ outcome[k] = "synced"
    /\ synced = Cardinality({ k \in Entries : Copyable(k) })

\* a finished run that replaced a longer old destination by a source with an
\* invalid byte and another by a plain text source
C1_Witness ==
  /\ pc = "done"
  /\ \E k \in Entries : Copyable(k) /\ ~ValidUtf8(files0[Src(k)])
                          /\ files0[Dst(k)] = OldDestBytes /\ files[Dst(k)] # OldDestBytes
  /\ \E k \in Entries : Copyable(k) /\ ValidUtf8(files0[Src(k)])
                          /\ files0[Dst(k)] = OldDestBytes /\ files[Dst(k)] = GoodBytes

\* C2: an entry whose source matches a blocked pattern is skipped, whether
\* or not its file exists: the source is never read, the destination keeps
\* its content, blocked goes up by exactly one per such entry and synced
\* counts none of them.
C2_BlockedSkipped ==
  LET done == 1..Len(outcome)
      junk == { k \in done : Junk(k) }
  IN  /\ \A k \in junk :
           /\ Src(k) \notin reads
           /\ files[Dst(k)] = files0[Dst(k)]
           /\ outcome[k] = "blocked"
      /\ blocked = Cardinality(junk)
      /\ synced <= Cardinality(done \ junk)

\* a finished run with a blocked source that exists and one that does not
C2_Witness ==
  /\ pc = "done"
  /\ blocked = 2
  /\ \E k \in Entries : Junk(k) /\ files0[Src(k)] # NoFile
  /\ \E k \in Entries : Junk(k) /\ files0[Src(k)] = NoFile

\* C3: a source that is not blocked and does not exist is skipped without
\* raising, its destination unchanged, counted neither as synced nor as
\* blocked; when the run ends, synced is the number of existing non-blocked
\* sources, blocked the number of blocked ones, and synced + blocked +
\* missing is the number of entries.
C3_MissingSkipped ==
  /\ \A k \in 1..Len(outcome) : Missing(k) =>
       /\ outcome[k] = "missing"
       /\ files[Dst(k)] = files0[Dst(k)]
  /\ (pc = "crashed" => ~Missing(i))
  /\ pc = "done" =>
       /\ synced = Cardinality({ k \in Entries : Copyable(k) })
       /\ blocked = Cardinality({ k \in Entries : Junk(k) })
       /\ synced + blocked + Cardinality({ k \in Entries : Missing(k) }) = Len(mapping)

\* a finished run over a table with a missing, non-blocked source and a
\* copied one
C3_Witness ==
  /\ pc = "done"
  /\ \E k \in Entries : Missing(k)
  /\ synced = 1
  /\ blocked = 0

\* C4 as stated: no run ends with a non-zero exit status or an uncaught
\* exception.
C4_NeverFails == pc # "crashed" /\ exitCode \in {-1, 0}

\* C4 amended: a run fails (uncaught exception, exit status 1) only at an
\* entry whose source is not blocked, exists and cannot be read, or whose
\* destination cannot be written; a missing or a blocked source never makes
\* it fail, and a run that returns exits with status 0.
C4_FailsOnlyOnIo ==
  /\ pc = "crashed" =>
       /\ exitCode = 1
       /\ i \in Entries
       /\ Copyable(i)
       /\ Src(i) \in unreadable \/ Dst(i) \in unwritable
  /\ pc = "done" => exitCode = 0
  /\ (\A k \in Entries : Copyable(k) => Src(k) \notin unreadable /\ Dst(k) \notin unwritable)
       => pc # "crashed"

\* a run that returned with status 0 although a source is missing and the
\* destination of a blocked source cannot be written
C4_Witness ==
  /\ pc = "done"
  /\ exitCode = 0
  /\ \E k \in Entries : Missing(k)
  /\ \E k \in Entries : Junk(k) /\ Dst(k) \in unwritable

\* C5 as stated: the run prints one Synced or Blocked line for every entry
\* of the table, in table order, and then one summary line with the numbers
\* of Synced and Blocked lines.
C5_OneLinePerEntry ==
  pc = "done" =>
    /\ Len(out) = Len(mapping) + 1
    /\ \A k \in Entries : out[k] \in {SyncedLine(k), BlockedLine(k)}
    /\ out[Len(out)] =
         SummaryLine(Cardinality({ k \in Entries : out[k] = SyncedLine(k) }),
                     Cardinality({ k \in Entries : out[k] = BlockedLine(k) }))

RECURSIVE ExpectedLines(_)
\* the lines of the first n entries: nothing for a missing source
ExpectedLines(n) ==
  IF n = 0 THEN <<>>
  ELSE ExpectedLines(n - 1) \o
         (IF Junk(n) THEN <<BlockedLine(n)>>
          ELSE IF Copyable(n) THEN <<SyncedLine(n)>>
          ELSE <<>>)

\* C5 amended: a run that returns has printed, in table order, one Blocked
\* line for every blocked entry, one Synced line for every entry copied and
\* no line for a missing source, followed by exactly one summary line whose
\* numbers are the numbers of Synced and Blocked lines before it.
C5_LinesThenSummary ==
  /\ pc = "done" =>
       LET body == ExpectedLines(Len(mapping))
           nS == Cardinality({ n \in 1..Len(body) : startsWith(body[n], SyncedPrefix) })
           nB == Cardinality({ n \in 1..Len(body) : startsWith(body[n], BlockedPrefix) })
       IN  out = body \o <<SummaryLine(nS, nB)>>
  /\ pc # "done" => \A n \in 1..Len(out) : ~startsWith(out[n], SummaryPrefix)

\* a finished run that printed a Synced and a Blocked line and the summary
C5_Witness ==
  /\ pc = "done"
  /\ Len(out) = 3
  /\ startsWith(out[1], SyncedPrefix)
  /\ startsWith(out[2], BlockedPrefix)
  /\ out[3] = SummaryLine(1, 1)

\* C6: blocked patterns are matched against the filename only; a source
\* whose filename contains no blocked word is never blocked, even under a
\* directory whose name contains one.
C6_FilenameOnly ==
  \A k \in 1..Len(outcome) : ~isJunkDoc(Basename(Src(k))) => outcome[k] # "blocked"

\* ------------------------------------------------------------------------
\* Validator: scripts/validate-docs.js (variant "basic") and its revision
\* with validation roots (variant "strict")
\* ------------------------------------------------------------------------
MaxFiles == 2

\* strict: /SUMMARY/i ... /VERIFICATION/i
JUNK_PATTERNS == <<"SUMMARY", "COMPLETE", "FIXES", "SESSION", "PROMPT", "STATUS",
                   "AUDIT", "VERIFICATION">>

\* basic: /<word>\.md$/i, or /<word>.*\.md$/i where any is TRUE
JUNK_PATTERNS_Basic == <<
  [word |-> "SUMMARY", any |-> FALSE],
  [word |-> "COMPLETE", any |-> FALSE],
  [word |-> "FIXES", any |-> FALSE],
  [word |-> "SESSION", any |-> TRUE],
  [word |-> "PROMPT", any |-> TRUE],
  [word |-> "STATUS", any |-> FALSE],
  [word |-> "_AUDIT", any |-> FALSE],
  [word |-> "VERIFICATION", any |-> FALSE] >>

REQUIRED_FRONTMATTER == <<"title", "description">>

REQUIRED_FRONTMATTER_Basic == <<"title">>

LineTerminators == {"\n", "\r"}

\* /<word>\.md$/i.test(s) and /<word>.*\.md$/i.test(s): '$' is the end of
\* the input, '.' is any character but a line terminator
TestAnchoredI(pat, s) ==
  IF pat.any
    THEN \E a \in 1..Len(s) :
           /\ MatchAtI(s, pat.word, a)
           /\ a + Len(pat.word) <= Len(s) - 2
           /\ MatchAtI(s, ".md", Len(s) - 2)
           /\ \A b \in (a + Len(pat.word))..(Len(s) - 3) : CharAt(s, b) \notin LineTerminators
    ELSE LET p == pat.word \o ".md"
         IN  Len(p) <= Len(s) /\ MatchAtI(s, p, Len(s) - Len(p) + 1)

\* strict: JUNK_PATTERNS.some(p => p.test(filename))
JunkName(filename) ==
  \E k \in 1..Len(JUNK_PATTERNS) : TestWordI(JUNK_PATTERNS[k], filename)

\* basic: JUNK_PATTERNS.some(p => p.test(filename))
JunkName_Basic(filename) ==
  \E k \in 1..Len(JUNK_PATTERNS_Basic) : TestAnchoredI(JUNK_PATTERNS_Basic[k], filename)

\* the null of JavaScript, told from every string by its flag
Null == [isNull |-> TRUE, text |-> ""]

\* strict: content.match(/^---\n([\s\S]*?)\n---/), group 1 or null
extractFrontmatter(content) ==
  LET close == IF startsWith(content, "---\n") THEN IndexFrom(content, "\n---", 5) ELSE 0
  IN  IF close = 0 THEN Null ELSE [isNull |-> FALSE, text |-> SubSeq(content, 5, close - 1)]

\* basic: content.split('---')[1] of a content that starts with '---'
SplitSecond(content) ==
  LET next == IndexFrom(content, "---", 4)
  IN  IF next = 0 THEN SubSeq(content, 4, Len(content)) ELSE SubSeq(content, 4, next - 1)

\* new RegExp(`^${field}:`, 'm').test(text): at the start of some line
FieldAtLineStart(field, text) ==
  \E a \in 1..Len(text) :
    /\ MatchAt(text, field \o ":", a)
    /\ a = 1 \/ CharAt(text, a - 1) \in LineTerminators

RECURSIVE MissingFields(_, _)
\* strict: one 'Missing frontmatter: <field>' per required field that opens
\* no line of the block, in the order of REQUIRED_FRONTMATTER
MissingFields(fields, frontmatter) ==
  IF Len(fields) = 0 THEN <<>>
  ELSE (IF FieldAtLineStart(Head(fields), frontmatter)
          THEN <<>>
          ELSE <<"Missing frontmatter: " \o Head(fields)>>)
        \o MissingFields(Tail(fields), frontmatter)

RECURSIVE MissingFields_Basic(_, _)
\* basic: one 'Missing frontmatter: <field>' per required field for which
\* '<field>:' occurs nowhere in the text
MissingFields_Basic(fields, frontmatter) ==
  IF Len(fields) = 0 THEN <<>>
  ELSE (IF includes(frontmatter, Head(fields) \o ":")
          THEN <<>>
          ELSE <<"Missing frontmatter: " \o Head(fields)>>)
        \o MissingFields_Basic(Tail(fields), frontmatter)

\* the patterns tested against the path instead of its last component
JunkErrors_FullPath(relPath) ==
  IF JunkName(relPath) THEN <<"Junk doc detected: " \o Basename(relPath)>> ELSE <<>>

\* strict: the filename of the path and the junk test on it
JunkErrors(relPath) ==
  LET filename == Basename(relPath)
  IN  IF JunkName(filename) THEN <<"Junk doc detected: " \o filename>> ELSE <<>>

\* basic: the filename of the path and the junk test on it
JunkErrors_Basic(filepath) ==
  LET filename == Basename(filepath)
  IN  IF JunkName_Basic(filename) THEN <<"Junk doc detected: " \o filename>> ELSE <<>>

\* strict: the frontmatter check on the text read
FrontmatterErrors(content) ==
  LET frontmatter == extractFrontmatter(content)
  IN  \* !frontmatter: null and the empty string are both falsy
      IF frontmatter.isNull \/ frontmatter.text = ""
        THEN <<"Missing frontmatter block">>
        ELSE MissingFields(REQUIRED_FRONTMATTER, frontmatter.text)

\* basic: the frontmatter check on the text read; the link loop after it
\* adds no error
FrontmatterErrors_Basic(content) ==
  IF startsWith(content, "---")
    THEN MissingFields_Basic(REQUIRED_FRONTMATTER_Basic, SplitSecond(content))
    ELSE <<>>

\* strict: the errors array validateFile returns for a file that can be read
validateFile(relPath, bytes) ==
  JunkErrors(relPath) \o FrontmatterErrors(DecodeUtf8(bytes))

\* basic: the errors array validateFile returns for a file that can be read
validateFile_Basic(filepath, bytes) ==
  JunkErrors_Basic(filepath) \o FrontmatterErrors_Basic(DecodeUtf8(bytes))

\* the validateFile of the script that runs
ValidateFileOf(v, path, bytes) ==
  IF v = "strict" THEN validateFile(path, bytes) ELSE validateFile_Basic(path, bytes)

\* ------------------------------------------------------------------------
\* The working directory and findMarkdownFiles
\* ------------------------------------------------------------------------
VALIDATION_ROOTS == {"guide", "api", "components"}

IGNORE_DIRS == {"node_modules", ".git", ".github", ".vscode"}

\* path.resolve(p) of a relative path
resolve(p) == join(Cwd, p)

\* path.relative(from, to): to is resolved, then the leading from is removed
relative(from, to) ==
  LET abs == resolve(to)
  IN  IF startsWith(abs, from \o "/") THEN SubSeq(abs, Len(from) + 2, Len(abs)) ELSE abs

\* filepath.split(sep)[0]
FirstPart(filepath) ==
  LET slash == IndexFrom(filepath, "/", 1)
  IN  IF slash = 0 THEN filepath ELSE SubSeq(filepath, 1, slash - 1)

\* strict: the root allowlist
shouldValidate(filepath) ==
  IF FirstPart(filepath) \in VALIDATION_ROOTS THEN TRUE ELSE filepath = "index.md"

\* where the files of the model can be: the names from the working
\* directory down to the file, in the order readdirSync lists them (byte
\* order, depth first)
TreePaths == <<
  <<".drafts.md", "plan.md">>,
  <<".git", "notes.md">>,
  <<".notes", "draft.md">>,
  <<"README.md">>,
  <<"SUMMARY.md">>,
  <<"api", "SUMMARY_2025.md">>,
  <<"components", "my-audit.md">>,
  <<"docs", "index.md">>,
  <<"guide", "COMPLETE_STATUS.md">>,
  <<"guide", "SESSION_NOTES.md">>,
  <<"guide", "VERIFICATION.md">>,
  <<"guide", "archive.md", "old.md">>,
  <<"guide", "intro.md">>,
  <<"guide", "node_modules", "pkg", "a.md">>,
  <<"guide", "notes.txt">>,
  <<"guide", "session", "intro.md">>,
  <<"guide", "session-notes.md">>,
  <<"index.md">>,
  <<"node_modules", "pkg", "CHANGES_SUMMARY.md">> >>

NoFrontmatter == "# Title\nbody"

FullFrontmatter == "---\ntitle: X\ndescription: d\n---\nbody"

FileBytes == {
  NoFrontmatter,
  FullFrontmatter,
  "---\ntitle: X\n---\nbody",
  "---\n---\nbody",
  "---\ntitle: X\nbody",
  "---\n\n---\nbody",
  "---\ndescription: d\n---\nbody",
  "---\nsubtitle: x\n---\nbody",
  "---\ndescription: a---b\ntitle: X\n---\nbody",
  "---\ntitle: X\ndescription: d\n---\nbody\n---\ntitle:\n---",
  "---\ndescription: d\n---\ntitle: X",
  "# T\n---\ntitle: X\ndescription: d\n---\nbody",
  "---\ntitle: a---b\ndescription: c---d\n---\nbody" }

\* a file that exists and on which readFileSync throws (EACCES, or ENOENT
\* when it was removed after the traversal)
NoAccess == "<EACCES>"

\* the places where every content is tried
FocusPaths == { <<"guide", "intro.md">>, <<"api", "SUMMARY_2025.md">> }

\* the files a tree is made of: every place with and without frontmatter,
\* the focus places with every content and unreadable
FilePool ==
  { [at |-> n, st |-> c] : n \in 1..Len(TreePaths), c \in {NoFrontmatter, FullFrontmatter} }
    \cup { [at |-> n, st |-> c] :
             n \in { m \in 1..Len(TreePaths) : TreePaths[m] \in FocusPaths },
             c \in FileBytes \cup {NoAccess} }

RECURSIVE PickFiles(_)
\* the tree made of the pool files of idx, a sequence in the order of TreePaths
PickFiles(idx) ==
  IF Len(idx) = 0 THEN <<>>
  ELSE <<[parts |-> TreePaths[Head(idx).at],
          bytes |-> IF Head(idx).st = NoAccess THEN "" ELSE Head(idx).st,
          readable |-> Head(idx).st # NoAccess]>>
         \o PickFiles(Tail(idx))

Trees ==
  { PickFiles(idx) :
      idx \in { s \in UNION { [1..n -> FilePool] : n \in 1..MaxFiles } :
                  \A a, b \in 1..Len(s) : a < b => s[a].at < s[b].at } }

RECURSIVE PathOf(_, _)
\* the path, from the working directory, of the first d names of parts
PathOf(parts, d) ==
  IF d = 0 THEN "." ELSE join(PathOf(parts, d - 1), parts[d])

RECURSIVE Dedup(_)
\* a directory lists each name once
Dedup(names) ==
  IF Len(names) = 0 THEN <<>>
  ELSE LET rest == Dedup(SubSeq(names, 1, Len(names) - 1))
           last == names[Len(names)]
       IN  IF \E n \in 1..Len(rest) : rest[n] = last THEN rest ELSE Append(rest, last)

RECURSIVE NamesIn(_, _)
NamesIn(dir, t) ==
  IF Len(t) = 0 THEN <<>>
  ELSE LET parts == Head(t).parts
           here == { d \in 0..(Len(parts) - 1) : PathOf(parts, d) = dir }
       IN  (IF here = {} THEN <<>> ELSE <<parts[(CHOOSE d \in here : TRUE) + 1]>>)
             \o NamesIn(dir, Tail(t))

\* readdirSync(dir): the names of the files and directories in dir
readdirSync(dir, t) == Dedup(NamesIn(dir, t))

\* statSync(path).isDirectory(): some file lies beneath path
isDirectory(path, t) ==
  \E n \in 1..Len(t) : \E d \in 1..(Len(t[n].parts) - 1) : PathOf(t[n].parts, d) = path

\* the file of the tree at path
FileAt(path, t) == t[CHOOSE n \in 1..Len(t) : PathOf(t[n].parts, Len(t[n].parts)) = path]

\* what the traversal has gathered: the files array, and every path found to
\* end in '.md'
NoneFound == [files |-> <<>>, found |-> <<>>]

\* the file object pushed for a path, with the content readFileSync will
\* find there (the tree does not change during a run); on a directory
\* readFileSync throws EISDIR
FileObject(fullPath, relPath, t) ==
  IF isDirectory(fullPath, t)
    THEN [relPath |-> relPath, bytes |-> "", readable |-> FALSE]
    ELSE [relPath |-> relPath, bytes |-> FileAt(fullPath, t).bytes,
          readable |-> FileAt(fullPath, t).readable]

RECURSIVE findMarkdownFiles(_, _, _)
RECURSIVE WalkItems(_, _, _, _)
\* strict: the for loop of findMarkdownFiles over the items of dir
WalkItems(items, dir, acc, t) ==
  IF Len(items) = 0 THEN acc
  ELSE LET item == Head(items)
           fullPath == join(dir, item)
           relPath == relative(Cwd, fullPath)
       IN  IF isDirectory(fullPath, t)
             THEN IF item \in IGNORE_DIRS \/ startsWith(item, ".")
                    THEN WalkItems(Tail(items), dir, acc, t)
                    ELSE WalkItems(Tail(items), dir, findMarkdownFiles(fullPath, acc, t), t)
             ELSE IF endsWith(item, ".md")
                    THEN WalkItems(Tail(items), dir,
                                   [files |-> IF shouldValidate(relPath)
                                                THEN Append(acc.files, FileObject(fullPath, relPath, t))
                                                ELSE acc.files,
                                    found |-> Append(acc.found, relPath)], t)
                    ELSE WalkItems(Tail(items), dir, acc, t)

\* strict: findMarkdownFiles(dir, files)
findMarkdownFiles(dir, acc, t) == WalkItems(readdirSync(dir, t), dir, acc, t)

RECURSIVE findMarkdownFiles_Basic(_, _, _)
RECURSIVE WalkItems_Basic(_, _, _, _)
\* basic: the for loop of findMarkdownFiles over the items of dir
WalkItems_Basic(items, dir, acc, t) ==
  IF Len(items) = 0 THEN acc
  ELSE LET item == Head(items)
           path == join(dir, item)
       IN  IF isDirectory(path, t) /\ ~startsWith(item, ".")
             THEN WalkItems_Basic(Tail(items), dir, findMarkdownFiles_Basic(path, acc, t), t)
             ELSE IF endsWith(item, ".md")
                    THEN WalkItems_Basic(Tail(items), dir,
                                         [files |-> Append(acc.files, FileObject(path, path, t)),
                                          found |-> Append(acc.found, path)], t)
                    ELSE WalkItems_Basic(Tail(items), dir, acc, t)

\* basic: findMarkdownFiles(dir, files)
findMarkdownFiles_Basic(dir, acc, t) == WalkItems_Basic(readdirSync(dir, t), dir, acc, t)

\* the findMarkdownFiles of the script that runs
FindMarkdownFilesOf(v, t) ==
  IF v = "strict" THEN findMarkdownFiles(".", NoneFound, t)
  ELSE findMarkdownFiles_Basic(".", NoneFound, t)

ValInit ==
  /\ variant \in {"basic", "strict"}
  /\ tree \in Trees
  /\ vfound = <<>>
  /\ vfiles = <<>>
  /\ vi = 1
  /\ verrors = <<>>
  /\ totalErrors = 0
  /\ vout = <<>>
  /\ vpc = "find"
  /\ vexit = -1

\* the sync engine does not run during a validator run
SyncIdle ==
  /\ mapping = <<>>
  /\ files = <<>>
  /\ unreadable = {}
  /\ unwritable = {}
  /\ i = 1
  /\ synced = 0
  /\ blocked = 0
  /\ out = <<>>
  /\ pc = "idle"
  /\ exitCode = -1
  /\ reads = {}
  /\ outcome = <<>>
  /\ files0 = <<>>

RECURSIVE ErrorLines(_)
\* errors.forEach(e => console.log(`   ${e}`))
ErrorLines(errors) ==
  IF Len(errors) = 0 THEN <<>> ELSE <<"   " \o Head(errors)>> \o ErrorLines(Tail(errors))

\* validate(), its first line: const files = findMarkdownFiles('.')
ValidateFind ==
  /\ vpc = "find"
  /\ LET got == FindMarkdownFilesOf(variant, tree)
     IN  /\ vfiles' = got.files
         /\ vfound' = got.found
  /\ vpc' = "loop"
  /\ UNCHANGED <<variant, tree, vi, verrors, totalErrors, vout, vexit>>
  /\ UNCHANGED syncVars
  /\ UNCHANGED runVars

VInLoop == vpc = "loop" /\ vi <= Len(vfiles)

\* validateFile pushing onto one errors array that every file shares
ValidateOne_SharedErrors ==
  /\ VInLoop
  /\ vfiles[vi].readable
  /\ LET errors == (IF Len(verrors) > 0 THEN verrors[Len(verrors)] ELSE <<>>)
                      \o ValidateFileOf(variant, vfiles[vi].relPath, vfiles[vi].bytes)
     IN  /\ verrors' = Append(verrors, errors)
         /\ vout' = IF Len(errors) > 0
                      THEN vout \o <<"\n" \o Cross \o " " \o vfiles[vi].relPath \o ":">> \o ErrorLines(errors)
                      ELSE vout
         /\ totalErrors' = totalErrors + Len(errors)
  /\ vi' = vi + 1
  /\ UNCHANGED <<variant, tree, vfound, vfiles, vpc, vexit>>
  /\ UNCHANGED syncVars
  /\ UNCHANGED runVars

\* validateFile deleting the file it found a junk name on
ValidateOne_Unlink ==
  /\ VInLoop
  /\ vfiles[vi].readable
  /\ LET errors == ValidateFileOf(variant, vfiles[vi].relPath, vfiles[vi].bytes)
     IN  /\ verrors' = Append(verrors, errors)
         /\ vout' = IF Len(errors) > 0
                      THEN vout \o <<"\n" \o Cross \o " " \o vfiles[vi].relPath \o ":">> \o ErrorLines(errors)
                      ELSE vout
         /\ totalErrors' = totalErrors + Len(errors)
         /\ tree' = IF Len(errors) > 0
                      THEN SelectSeq(tree, LAMBDA f : PathOf(f.parts, Len(f.parts)) # vfiles[vi].relPath)
                      ELSE tree
  /\ vi' = vi + 1
  /\ UNCHANGED <<variant, vfound, vfiles, vpc, vexit>>
  /\ UNCHANGED syncVars
  /\ UNCHANGED runVars

\* validate(), one iteration of the for loop on a file that can be read
ValidateOne ==
  /\ VInLoop
  /\ vfiles[vi].readable
  /\ LET errors == ValidateFileOf(variant, vfiles[vi].relPath, vfiles[vi].bytes)
     IN  /\ verrors' = Append(verrors, errors)
         /\ vout' = IF Len(errors) > 0
                      THEN vout \o <<"\n" \o Cross \o " " \o vfiles[vi].relPath \o ":">> \o ErrorLines(errors)
                      ELSE vout
         /\ totalErrors' = totalErrors + Len(errors)
  /\ vi' = vi + 1
  /\ UNCHANGED <<variant, tree, vfound, vfiles, vpc, vexit>>
  /\ UNCHANGED syncVars
  /\ UNCHANGED runVars

\* validateFile: readFileSync throws; nothing catches it, node exits with 1
ValidateReadThrows ==
  /\ VInLoop
  /\ ~vfiles[vi].readable
  /\ vpc' = "crashed"
  /\ vexit' = 1
  /\ UNCHANGED <<variant, tree, vfound, vfiles, vi, verrors, totalErrors, vout>>
  /\ UNCHANGED syncVars
  /\ UNCHANGED runVars

\* validate(), after the loop with errors: the failure line and process.exit(1)
ValidateFail ==
  /\ vpc = "loop"
  /\ vi > Len(vfiles)
  /\ totalErrors > 0
  /\ vout' = Append(vout, "\n" \o Cross \o " Validation failed: " \o ToString(totalErrors) \o " errors")
  /\ vpc' = "done"
  /\ vexit' = 1
  /\ UNCHANGED <<variant, tree, vfound, vfiles, vi, verrors, totalErrors>>
  /\ UNCHANGED syncVars
  /\ UNCHANGED runVars

\* validate(), after the loop without errors: the success line, exit status 0
ValidatePass ==
  /\ vpc = "loop"
  /\ vi > Len(vfiles)
  /\ totalErrors = 0
  /\ vout' = Append(vout, "\n" \o Check \o " All docs validated")
  /\ vpc' = "done"
  /\ vexit' = 0
  /\ UNCHANGED <<variant, tree, vfound, vfiles, vi, verrors, totalErrors>>
  /\ UNCHANGED syncVars
  /\ UNCHANGED runVars

validate ==
  \/ ValidateFind
  \/ ValidateOne
  \/ ValidateReadThrows
  \/ ValidateFail
  \/ ValidatePass

InitValidate == ValInit /\ SyncIdle /\ FirstRun

NextValidate == validate

SpecValidate == InitValidate /\ [][NextValidate]_vars

\* the validator is started once more on the same tree: the last line of the
\* script calls validate() in a new process
ValidateAgain ==
  /\ vpc \in {"done", "crashed"}
  /\ run < MaxRuns
  /\ run' = run + 1
  /\ prev' = [out |-> vout, exit |-> vexit, fs |-> tree]
  /\ vfound' = <<>>
  /\ vfiles' = <<>>
  /\ vi' = 1
  /\ verrors' = <<>>
  /\ totalErrors' = 0
  /\ vout' = <<>>
  /\ vpc' = "find"
  /\ vexit' = -1
  /\ UNCHANGED <<variant, tree>>
  /\ UNCHANGED syncVars

NextValidateTwice == validate \/ ValidateAgain

\* the trees the validator is run on repeatedly: files under guide/, the
\* top-level index.md and the dot-directory
TreesTwice ==
  { t \in Trees : \A n \in 1..Len(t) : t[n].parts[1] \in {"guide", "index.md", ".drafts.md"} }

InitValidateTwice == InitValidate /\ tree \in TreesTwice

\* the validator run up to MaxRuns times in a row
SpecValidateTwice == InitValidateTwice /\ [][NextValidateTwice]_vars

\* ------------------------------------------------------------------------
\* Properties of the junk patterns and of validateFile
\* ------------------------------------------------------------------------
\* the blocked patterns documented in index.md: *WORD*.md
DOCUMENTED_PATTERNS == <<"SUMMARY", "COMPLETE", "FIXES", "SESSION", "PROMPT", "STATUS",
                         "AUDIT", "VERIFICATION">>

\* the name contains one of the documented words, in any letter case
HasBlockedWord(name) ==
  \E k \in 1..Len(DOCUMENTED_PATTERNS) : TestWordI(DOCUMENTED_PATTERNS[k], name)

\* the paths of the pool whose filename contains none of the documented words
CleanNamed ==
  { PathOf(TreePaths[n], Len(TreePaths[n])) :
      n \in { m \in 1..Len(TreePaths) :
                ~HasBlockedWord(TreePaths[m][Len(TreePaths[m])]) } }

\* the files validateFile has returned for
Checked == 1..Len(verrors)

JunkErrorsOf(k) ==
  { n \in 1..Len(verrors[k]) : startsWith(verrors[k][n], "Junk doc detected: ") }

FieldErrorsOf(k) ==
  { n \in 1..Len(verrors[k]) : startsWith(verrors[k][n], "Missing frontmatter: ") }

BlockErrorsOf(k) ==
  { n \in 1..Len(verrors[k]) : verrors[k][n] = "Missing frontmatter block" }

\* the text begins with a '---' line and has a later '---' line closing it
HasLeadingBlock(text) ==
  /\ startsWith(text, "---\n")
  /\ \E a \in 4..Len(text) :
       /\ MatchAt(text, "\n---", a)
       /\ a + 4 > Len(text) \/ CharAt(text, a + 4) \in LineTerminators

\* C7: each of the eight documented junk patterns is rejected by both
\* tools, and the sync engine blocks exactly the filenames the validator
\* flags as junk.
C7_SamePatternsBothTools ==
  \A k \in 1..Len(outcome) :
    LET f == Basename(Src(k))
    IN  /\ HasBlockedWord(f) =>
             outcome[k] = "blocked" /\ JunkName(f) /\ JunkName_Basic(f)
        /\ isJunkDoc(f) <=> JunkName(f)
        /\ isJunkDoc(f) <=> JunkName_Basic(f)

\* C8: a checked file whose filename contains a blocked word, in any letter
\* case, gets exactly one 'Junk doc detected: <filename>' error whatever its
\* content, and a filename without any gets none.
C8_OneJunkErrorPerJunkName ==
  \A k \in Checked :
    LET f == Basename(vfiles[k].relPath)
    IN  IF vfiles[k].relPath \notin CleanNamed
          THEN /\ Cardinality(JunkErrorsOf(k)) = 1
               /\ \A n \in JunkErrorsOf(k) : verrors[k][n] = "Junk doc detected: " \o f
          ELSE JunkErrorsOf(k) = {}

\* C9: the junk test is applied to the last path component only: a file
\* with a clean filename gets no junk-doc error, whatever the names of the
\* directories above it.
C9_JunkTestOnFilenameOnly ==
  \A k \in Checked :
    vfiles[k].relPath \in CleanNamed => JunkErrorsOf(k) = {}

\* a checked file with a clean name under a directory named after a blocked
\* word, in the variant whose patterns match anywhere in the string
C9_Witness ==
  /\ variant = "strict"
  /\ \E k \in Checked :
       /\ HasBlockedWord(vfiles[k].relPath)
       /\ ~HasBlockedWord(Basename(vfiles[k].relPath))
       /\ JunkErrorsOf(k) = {}

\* C10: a checked file without a leading '---'-delimited block gets a
\* missing-frontmatter error and no 'Missing frontmatter: <field>' error.
C10_NoBlockReported ==
  \A k \in Checked :
    ~HasLeadingBlock(DecodeUtf8(vfiles[k].bytes)) =>
      /\ BlockErrorsOf(k) # {}
      /\ FieldErrorsOf(k) = {}

\* ------------------------------------------------------------------------
\* Properties of the frontmatter check
\* ------------------------------------------------------------------------
\* the text read from the k-th checked file
TextOf(k) == DecodeUtf8(vfiles[k].bytes)

\* the errors array of the k-th checked file holds this message
HasError(k, msg) == \E n \in 1..Len(verrors[k]) : verrors[k][n] = msg

\* C11: a checked file whose content is an empty frontmatter block followed
\* by a body ('---', newline, '---', newline, body) gets the missing-field
\* error 'Missing frontmatter: title' and not the missing-block error.
C11_EmptyBlockLacksTitle ==
  \A k \in Checked :
    startsWith(TextOf(k), "---\n---\n") =>
      /\ HasError(k, "Missing frontmatter: title")
      /\ BlockErrorsOf(k) = {}

\* where the line of three hyphens that closes the leading block begins
\* (the offset of the newline before it)
ClosingAt(text) ==
  CHOOSE a \in 4..Len(text) :
    /\ MatchAt(text, "\n---", a)
    /\ a + 4 > Len(text) \/ CharAt(text, a + 4) \in LineTerminators
    /\ \A b \in 4..(a - 1) :
         ~(MatchAt(text, "\n---", b) /\ (b + 4 > Len(text) \/ CharAt(text, b + 4) \in LineTerminators))

\* the lines between the two delimiters of the leading block
BlockOf(text) == SubSeq(text, 5, ClosingAt(text) - 1)

\* some line of the block begins with '<field>:'
BlockHasField(field, text) ==
  LET block == BlockOf(text)
  IN  \E a \in 1..Len(block) :
        /\ MatchAt(block, field \o ":", a)
        /\ a = 1 \/ CharAt(block, a - 1) = "\n"

\* the fields the validator that runs requires
RequiredFields == IF variant = "strict" THEN {"title", "description"} ELSE {"title"}

\* how many errors of the k-th checked file are this message
CountError(k, msg) == Cardinality({ n \in 1..Len(verrors[k]) : verrors[k][n] = msg })

\* C12: a checked file that has a frontmatter block gets one
\* 'Missing frontmatter: <field>' error for each required field absent from
\* the block and none for a field that is present.
C12_OneErrorPerAbsentField ==
  \A k \in Checked :
    HasLeadingBlock(TextOf(k)) =>
      \A f \in {"title", "description"} :
        CountError(k, "Missing frontmatter: " \o f) =
          IF f \in RequiredFields /\ ~BlockHasField(f, TextOf(k)) THEN 1 ELSE 0

\* C13: a required field counts as present only when some line of the block
\* begins with '<field>:': a checked file whose block holds 'title:' only
\* inside another key or inside a value gets 'Missing frontmatter: title'.
C13_FieldOnlyAtLineStart ==
  \A k \in Checked :
    ( /\ HasLeadingBlock(TextOf(k))
      /\ includes(BlockOf(TextOf(k)), "title:")
      /\ ~BlockHasField("title", TextOf(k)) )
      => HasError(k, "Missing frontmatter: title")

\* ------------------------------------------------------------------------
\* Properties of the traversal
\* ------------------------------------------------------------------------
\* the path of a file of the tree, relative to the working directory
TreePath(n) == PathOf(tree[n].parts, Len(tree[n].parts))

\* the files array has been built
Found == vpc # "find"

\* the path is under guide/, api/ or components/, or is the top-level index.md
UnderRoots(path) ==
  \/ \E r \in {"guide", "api", "components"} : startsWith(path, r \o "/")
  \/ path = "index.md"

\* the header line printed for a file with errors
HeaderLine(path) == "\n" \o Cross \o " " \o path \o ":"

\* C14: a markdown file found by the traversal is checked if and only if it
\* is under guide/, api/ or components/ or is the top-level index.md; no
\* other file is validated or gets an output line.
C14_OnlyRootsChecked ==
  Found =>
    /\ \A k \in 1..Len(vfiles) : UnderRoots(vfiles[k].relPath)
    /\ \A n \in 1..Len(vfound) :
         UnderRoots(vfound[n]) => \E k \in 1..Len(vfiles) : vfiles[k].relPath = vfound[n]
    /\ \A n \in 1..Len(tree) :
         ~UnderRoots(TreePath(n)) => \A m \in 1..Len(vout) : vout[m] # HeaderLine(TreePath(n))

\* some directory above the file is named node_modules, .git, .github or
\* .vscode, or has a name that begins with a dot
UnderIgnoredDir(parts) ==
  \E d \in 1..(Len(parts) - 1) :
    \/ parts[d] \in {"node_modules", ".git", ".github", ".vscode"}
    \/ SubSeq(parts[d], 1, 1) = "."

\* the traversal found the path to end in '.md'
Enumerated(path) == \E n \in 1..Len(vfound) : vfound[n] = path

\* C15: no file beneath an ignored directory or a directory whose name
\* begins with a dot, at any depth, is enumerated or validated; every other
\* file whose name ends in '.md' is enumerated.
C15_IgnoredDirsSkipped ==
  Found =>
    \A n \in 1..Len(tree) :
      IF UnderIgnoredDir(tree[n].parts)
        THEN /\ ~Enumerated(TreePath(n))
             /\ \A k \in 1..Len(vfiles) : vfiles[k].relPath # TreePath(n)
        ELSE endsWith(TreePath(n), ".md") => Enumerated(TreePath(n))

\* ------------------------------------------------------------------------
\* Properties of validate(): exit status and output
\* ------------------------------------------------------------------------
\* the run has ended, by returning, by process.exit or by an exception
Ended == vpc \in {"done", "crashed"}

\* some checked file had a validation error
SomeError == \E k \in Checked : Len(verrors[k]) > 0

\* C16: a run ends with exit status 1 if and only if at least one
\* validation error was found in a checked file, and with 0 otherwise.
C16_ExitOneIffErrors ==
  Ended =>
    /\ vexit \in {0, 1}
    /\ vexit = 1 <=> SomeError

RECURSIVE Indented(_)
\* one output line per error of a file
Indented(errors) ==
  IF Len(errors) = 0 THEN <<>>
  ELSE Indented(SubSeq(errors, 1, Len(errors) - 1)) \o <<"   " \o errors[Len(errors)]>>

RECURSIVE ExpectedReport(_)
\* the report of the first n checked files: for each file with errors its
\* header and its error lines, nothing for a file without errors
ExpectedReport(n) ==
  IF n = 0 THEN <<>>
  ELSE ExpectedReport(n - 1) \o
         (IF Len(verrors[n]) > 0
            THEN <<HeaderLine(vfiles[n].relPath)>> \o Indented(verrors[n])
            ELSE <<>>)

RECURSIVE SumErrors(_)
SumErrors(n) == IF n = 0 THEN 0 ELSE SumErrors(n - 1) + Len(verrors[n])

PassLine == "\n" \o Check \o " All docs validated"

FailLine(n) == "\n" \o Cross \o " Validation failed: " \o ToString(n) \o " errors"

\* C17: a run reports the complete set of violations: every checked file is
\* checked, each file with errors gets one header line followed by one line
\* per error, a file without errors gets no line, and the run ends with
\* exactly one summary line, 'All docs validated' or 'Validation failed: <n>
\* errors', where n is the sum of the per-file error counts.
C17_CompleteReport ==
  Ended =>
    /\ Len(verrors) = Len(vfiles)
    /\ vout = ExpectedReport(Len(verrors)) \o
                <<IF SumErrors(Len(verrors)) = 0 THEN PassLine
                  ELSE FailLine(SumErrors(Len(verrors)))>>

\* the line is one of the two summary lines
IsSummaryLine(line) ==
  line = PassLine \/ startsWith(line, "\n" \o Cross \o " Validation failed: ")

\* C18: when reading a checked file fails, only that file's check is
\* aborted: the loop still goes through every remaining file and the run
\* ends with its summary line and an exit status of 0 or 1 from the errors
\* found.
C18_ReadFailureContained ==
  (Ended /\ \E k \in 1..Len(vfiles) : ~vfiles[k].readable) =>
    /\ vpc = "done"
    /\ vi = Len(vfiles) + 1
    /\ Len(vout) > 0
    /\ IsSummaryLine(vout[Len(vout)])

\* the content of a file of the tree meets the documented frontmatter rule:
\* a leading block with a title line and a description line
WellFormed(text) ==
  /\ HasLeadingBlock(text)
  /\ BlockHasField("title", text)
  /\ BlockHasField("description", text)

\* C19: if a run ends with 'All docs validated' and exit status 0, every
\* markdown file under guide/, api/, components/ and the top-level index.md
\* has a non-junk filename and a leading frontmatter block with title and
\* description.
C19_PassMeansAllDocsValid ==
  (vpc = "done" /\ vexit = 0 /\ vout[Len(vout)] = PassLine) =>
    \A n \in 1..Len(tree) :
      (UnderRoots(TreePath(n)) /\ endsWith(TreePath(n), ".md")) =>
        /\ TreePath(n) \in CleanNamed
        /\ tree[n].readable
        /\ WellFormed(DecodeUtf8(tree[n].bytes))

\* C20: a checked file with a clean filename whose content starts with a
\* frontmatter block holding a line for every field the validator requires
\* gets no error, whatever follows the closing delimiter.
C20_NoFalsePositive ==
  \A k \in Checked :
    ( /\ vfiles[k].relPath \in CleanNamed
      /\ HasLeadingBlock(TextOf(k))
      /\ \A f \in RequiredFields : BlockHasField(f, TextOf(k)) )
      => verrors[k] = <<>>

\* ---- C21 ----
\* the name validateFile tests of a file: the last component of its path
NameOf(k) == Basename(vfiles[k].relPath)

\* C21: the validator is deterministic. A second run on the same, unchanged
\* tree ends with the same output lines and the same exit status as the first
\* run, and within a run two files with the same filename and the same content
\* get the same errors wherever they lie and whatever was checked before them.
C21_Deterministic ==
  /\ (run > 1 /\ Ended) => (vout = prev.out /\ vexit = prev.exit)
  /\ \A k \in Checked : \A n \in Checked :
       (NameOf(k) = NameOf(n) /\ vfiles[k].bytes = vfiles[n].bytes)
         => verrors[k] = verrors[n]

\* a second run ended after reporting two files of the same name and content
C21_Witness ==
  /\ run > 1
  /\ vpc = "done"
  /\ vexit = 1
  /\ \E k \in Checked : \E n \in Checked :
       /\ k # n
       /\ NameOf(k) = NameOf(n)
       /\ vfiles[k].bytes = vfiles[n].bytes
       /\ Len(verrors[k]) > 0

\* ---- C22 ----
\* C22: a validator run leaves the filesystem unchanged. No step of a run
\* creates, deletes, renames or rewrites a file or a directory: each step
\* changes only the lines printed and the exit status (and the run's own
\* local variables).
C22_FilesystemUntouched == [][tree' = tree /\ files' = files]_vars

\* a run ended after reading files and printing errors about them
C22_Witness ==
  /\ vpc = "done"
  /\ vexit = 1
  /\ Len(tree) = MaxFiles
  /\ Len(verrors) > 0

\* ---- C23 ----
\* what a completed write leaves in the destination of entry k
NewContent(k) == EncodeUtf8(DecodeUtf8(files[Src(k)]))

\* text is a leading part of whole, shorter than whole
ProperPrefix(text, whole) ==
  Len(text) < Len(whole) /\ text = SubSeq(whole, 1, Len(text))

\* a step changes no file but the destination of the entry it processes, and
\* that entry is not blocked and its source exists
OnlyCurrentDest ==
  /\ mapping' = mapping
  /\ \A k \in Entries : files'[Src(k)] = files[Src(k)]
  /\ \A p \in DOMAIN files :
       files'[p] # files[p] => (i \in Entries /\ p = Dst(i) /\ Copyable(i))

\* C23 as claimed: a run writes only the destinations of entries that are not
\* blocked and whose source exists, changes no source, no unmapped file and
\* not the mapping, and every destination it writes holds the whole new
\* content afterwards.
C23_FrameWholesale ==
  [][ /\ OnlyCurrentDest
      /\ \A p \in DOMAIN files : files'[p] # files[p] => files'[p] = NewContent(i) ]_vars

\* C23 amended: the same frame, and a destination written by a writeFileSync
\* that returns holds the whole new content; a writeFileSync that throws
\* after opening the file leaves a leading part of the new content in it.
C23_Frame ==
  [][ /\ OnlyCurrentDest
      /\ \A p \in DOMAIN files :
           files'[p] # files[p] =>
             \/ pc' = "loop" /\ files'[p] = NewContent(i)
             \/ pc' = "crashed" /\ ProperPrefix(files'[p], NewContent(i)) ]_vars

\* a run that wrote one destination in full, skipped a blocked or missing
\* entry and left the unmapped file alone
C23_Witness ==
  /\ pc = "done"
  /\ Len(mapping) = 2
  /\ \E k \in Entries : Copyable(k) /\ files[Dst(k)] # files0[Dst(k)]
  /\ \E k \in Entries : ~Copyable(k) /\ files[Dst(k)] = files0[Dst(k)]
  /\ files[OtherPath] = OtherBytes

\* ---- C24 ----
\* the destinations of the shipped mapping are pairwise different
ShippedDestsDistinct ==
  \A a \in 1..Len(APPROVED_SOURCES) : \A b \in 1..Len(APPROVED_SOURCES) :
    a # b => APPROVED_SOURCES[a].dest # APPROVED_SOURCES[b].dest

\* the destination of some entry was edited by hand before this run
EditedBefore == \E k \in Entries : files0[Dst(k)] = HandEdited

\* C24: sync is idempotent and last-write-wins. A second run that returns,
\* with the sources unchanged, prints the same lines (the same counts) and
\* exits as the first run did; every destination it writes holds what the
\* first run left there, also when that destination was edited by hand
\* between the runs; without a hand edit the whole filesystem is as the first
\* run left it. No two entries of the shipped mapping share a destination.
C24_IdempotentLastWriteWins ==
  /\ ShippedDestsDistinct
  /\ (run > 1 /\ pc = "done") =>
       /\ out = prev.out
       /\ exitCode = prev.exit
       /\ \A k \in Entries : Copyable(k) => files[Dst(k)] = prev.fs[Dst(k)]
       /\ ~EditedBefore => files = prev.fs

\* a second run returned after overwriting a destination edited by hand
C24_Witness ==
  /\ run > 1
  /\ pc = "done"
  /\ synced > 0
  /\ \E k \in Entries :
       /\ Copyable(k)
       /\ files0[Dst(k)] = HandEdited
       /\ files[Dst(k)] = NewContent(k)

\* ---- C25 ----
\* the text opens a frontmatter block with a '---' line and never closes it
Unterminated(text) == startsWith(text, "---\n") /\ ~HasLeadingBlock(text)

\* C25: a checked file that starts with a '---' line and has no later closing
\* '---' line has no frontmatter block: it gets the missing-frontmatter error,
\* whatever 'title:' or 'description:' lines follow the opening line.
C25_UnterminatedIsMissing ==
  \A k \in Checked : Unterminated(TextOf(k)) => BlockErrorsOf(k) # {}

\* ---- C26 ----
\* some line of the text begins with 'title:'
HasTitleLine(text) ==
  \E a \in 1..Len(text) :
    /\ MatchAt(text, "title:", a)
    /\ a = 1 \/ CharAt(text, a - 1) = "\n"

\* the block's first line is the title line and '---' occurs in the block
TitleFirstWithDashes(text) ==
  /\ HasLeadingBlock(text)
  /\ startsWith(BlockOf(text), "title:")
  /\ includes(BlockOf(text), "---")

\* C26: only the text between the opening '---' line at the very start of the
\* file and the first '---' delimiter line after it is the frontmatter block.
\* A file whose only 'title:' line lies after the closing delimiter, or in a
\* '---' section that does not start the file, is reported (title missing or
\* no block); a title line inside the block is found even when its value or a
\* later line of the block contains '---'.
C26_OnlyLeadingBlockCounts ==
  \A k \in Checked :
    LET text == TextOf(k)
    IN  /\ (/\ HasTitleLine(text)
            /\ ~Unterminated(text)
            /\ ~(HasLeadingBlock(text) /\ BlockHasField("title", text)))
              => (HasError(k, "Missing frontmatter: title") \/ BlockErrorsOf(k) # {})
        /\ TitleFirstWithDashes(text)
              => (~HasError(k, "Missing frontmatter: title") /\ BlockErrorsOf(k) = {})

\* ---- C27 ----
\* how many entries of the files array carry the path
TimesListed(path) == Cardinality({ k \in 1..Len(vfiles) : vfiles[k].relPath = path })

\* C27: the enumeration lists each file once. Once findMarkdownFiles has
\* returned, every markdown file that is under no ignored or dot directory and
\* is under a validation root is in the list exactly once, no path is in the
\* list twice, the errors counted are the errors of the listed files, each
\* counted once, and no directory whose name ends in '.md' is in the list as a
\* file to read.
C27_EachFileListedOnce ==
  Found =>
    /\ \A n \in 1..Len(tree) :
         (/\ endsWith(TreePath(n), ".md")
          /\ ~UnderIgnoredDir(tree[n].parts)
          /\ UnderRoots(TreePath(n))) => TimesListed(TreePath(n)) = 1
    /\ \A k \in 1..Len(vfiles) : TimesListed(vfiles[k].relPath) = 1
    /\ totalErrors = SumErrors(Len(verrors))
    /\ \A k \in 1..Len(vfiles) : ~isDirectory(vfiles[k].relPath, tree)

\* ---- C28 ----
\* the run ended by an uncaught exception at entry i: the entries before i
\* that were copied keep their new content, the entries after i were not
\* processed and their destinations are as at the start, no outcome was
\* recorded for i or later, and no summary line was printed
StoppedAtEntry ==
  /\ i \in Entries
  /\ Len(outcome) = i - 1
  /\ \A k \in 1..(i - 1) :
       Copyable(k) => (outcome[k] = "synced" /\ files[Dst(k)] = NewContent(k))
  /\ \A k \in (i + 1)..Len(mapping) : files[Dst(k)] = files0[Dst(k)]
  /\ \A n \in 1..Len(out) : ~startsWith(out[n], SummaryPrefix)

\* C28 as claimed: sync is not atomic across entries, and the destination of
\* the entry at which the read or the write threw holds either its whole old
\* content or the whole new content.
C28_OldOrNewAtFailure ==
  pc = "crashed" =>
    /\ StoppedAtEntry
    /\ files[Dst(i)] \in {files0[Dst(i)], NewContent(i)}

\* C28 amended: sync is not atomic across entries, and the destination of the
\* entry at which the run stopped holds its old content when the read threw
\* or the destination could not be opened, and otherwise a leading part of
\* the new content, shorter than the whole.
C28_NoRollback ==
  pc = "crashed" =>
    /\ StoppedAtEntry
    /\ \/ files[Dst(i)] = files0[Dst(i)]
       \/ /\ Src(i) \notin unreadable
          /\ ProperPrefix(files[Dst(i)], NewContent(i))

\* the write of the second entry threw midway after the first was copied
C28_Witness ==
  /\ pc = "crashed"
  /\ i = 2
  /\ Copyable(1)
  /\ files[Dst(1)] = NewContent(1)
  /\ files[Dst(1)] # files0[Dst(1)]
  /\ files[Dst(2)] # files0[Dst(2)]
  /\ ProperPrefix(files[Dst(2)], NewContent(2))
  /\ Len(files[Dst(2)]) > 0

TypeOK ==
  /\ pc \in {"loop", "done", "crashed"}
  /\ i \in 1..(Len(mapping) + 1)
  /\ synced \in 0..Len(mapping)
  /\ blocked \in 0..Len(mapping)
====
